---- MODULE Spec2Model ----
(***************************************************************************)
(* Model of the proxy-topology reconciliation of dockermc-cloud-manager:   *)
(* the proxy and server registries (GORM repositories), the container      *)
(* runtime the services drive, and the service operations, one step per    *)
(* blocking call so that concurrent requests interleave as they do in the  *)
(* HTTP server.                                                            *)
(***************************************************************************)
EXTENDS Integers, Sequences, FiniteSets, TLC

\* ------------------------------------------------------------------ bounds
MaxServers == 2          \* server ids (uuid.New) handed out
MaxProxyContainers == 2  \* proxy containers the runtime ever creates
MaxFaults == 1           \* runtime / database calls that fail
MaxEnv == 1              \* external changes to containers (docker rm, crash)
MaxOps == 4              \* requests served one after the other
MaxRaceOps == 3          \* requests served concurrently
MaxProbeOps == 2         \* reads of the proxy in the probe specification
MaxConnectOps == 3       \* requests in the connect specification
MaxLines == 2            \* log lines the container writes
MaxMsgs == 1             \* messages the WebSocket client sends
MaxRegistryOps == 2      \* registry operations in the registry specification

Procs == {1, 2}          \* concurrent request tasks
\* The create requests clients send (max_players 0: omitted).
Requests == {[name |-> "A", max_players |-> 0], [name |-> "B", max_players |-> 5]}

\* ------------------------------------------------------- program constants
SingleProxyID == "main-proxy"
DefaultProxyPort == 25565
DefaultMaxPlayers == 20
BackendPort == 25565
ProxyVolume == 0         \* the volume named "mc-proxy-main"
NoHandle == 0            \* the empty string as ContainerID / DefaultServerID
NoVolume == -1           \* the empty string as VolumeID

StatusCreating == "creating"
StatusRunning == "running"
StatusStopped == "stopped"
StatusError == "error"

VARIABLES
    containers,  \* runtime: container id -> [name, vol, flags, attached, aliases, connects,
                 \* proxyMode]; connects counts the NetworkConnect calls made on it
    volumes,     \* runtime: names of the volumes that exist
    patched,     \* runtime: server volumes holding /data/patches/bungeecord.json
    network,     \* runtime: the network "minecraft-network" exists
    deployed,    \* runtime: /server/velocity.toml in the proxy volume
    proxyRows,   \* table proxy_servers
    serverRows,  \* table minecraft_servers, in rowid order
    nextSid,     \* next server id uuid.New returns
    nextPc,      \* proxy containers created so far
    pc,          \* per task: the call it is about to make
    loc,         \* per task: the locals of the running operation
    hist,        \* the call before this one, when it was a successful EnsureProxyExists:
                 \* what it returned and the containers and volumes it left
    faults,      \* failed calls so far
    envs,        \* external changes so far
    ops,         \* requests still to come
    width,       \* requests served at once
    stream       \* the log stream of StreamLogs and its goroutines

vars == <<containers, volumes, patched, network, deployed, proxyRows, serverRows,
          nextSid, nextPc, pc, loc, hist, faults, envs, ops, width, stream>>

runtimeVars == <<containers, volumes, patched, network, deployed>>

\* ------------------------------------------------------------ data shapes
NilProxy ==
    [ID |-> "", ContainerID |-> NoHandle, VolumeID |-> NoVolume,
     DefaultServerID |-> NoHandle, Status |-> "", Port |-> 0]

NilServer ==
    [ID |-> NoHandle, Name |-> "", ContainerID |-> NoHandle, VolumeID |-> NoVolume,
     Status |-> "", MaxPlayers |-> 0, Deleted |-> FALSE]

NoState == [Exists |-> FALSE, Running |-> FALSE, Restarting |-> FALSE,
            Dead |-> FALSE, OOMKilled |-> FALSE]

FlagsCreated == [Running |-> FALSE, Restarting |-> FALSE, Dead |-> FALSE, OOMKilled |-> FALSE]
FlagsRunning == [FlagsCreated EXCEPT !.Running = TRUE]
FlagsRestarting == [FlagsCreated EXCEPT !.Running = TRUE, !.Restarting = TRUE]
FlagsDead == [FlagsCreated EXCEPT !.Dead = TRUE]
FlagsOOM == [FlagsCreated EXCEPT !.OOMKilled = TRUE]

NoDoc == [present |-> FALSE, servers |-> <<>>, try |-> <<>>]

LocInit ==
    [op |-> "", name |-> "", maxp |-> 0, id |-> NoHandle,
     proxy |-> NilProxy, sproxy |-> NilProxy, found |-> NilProxy, server |-> NilServer,
     state |-> NoState, list |-> <<>>, defname |-> "",
     hasProxy |-> FALSE, created |-> FALSE, unreachable |-> FALSE, connected |-> FALSE,
     err |-> "", stk |-> <<>>]

\* No log stream: StreamLogs has not been called.
NoStream ==
    [main |-> "idle", reader |-> "none", sender |-> "none", demux |-> "none",
     cancelled |-> FALSE, reqCancelled |-> FALSE, client |-> "open",
     inbox |-> 0, msgs |-> 0, replies |-> 0, lines |-> 0, written |-> 0,
     ended |-> FALSE, follow |-> FALSE]

NoHist == [ok |-> FALSE, out |-> NilProxy, created |-> FALSE, cids |-> {}, vols |-> {}]

\* ------------------------------------------------------- container runtime
\* Containers that bind volume v.
UsersOf(cs, v) == {c \in DOMAIN cs : cs[c].vol = v}

\* A removal that also takes a volume a container still mounts.
VolumeRemoveForced(vols, cs, v) == vols \ {v}

\* A removal that leaves the volume in place.
VolumeRemoveKept(vs, cs, v) == vs

\* client.VolumeRemove(ctx, name, force): the daemon refuses to remove a volume
\* a container still binds; the callers ignore the result.
VolumeRemove(vs, cs, v) == IF UsersOf(cs, v) = {} THEN vs \ {v} ELSE vs

\* A removal that leaves the container in place.
ContainerRemoveKept(cs, c) == cs

\* client.ContainerRemove(ctx, id, Force): removes the container if it exists.
ContainerRemove(cs, c) == [x \in DOMAIN cs \ {c} |-> cs[x]]

\* The file velocity.toml lives in the proxy volume and goes with it.
DocAfter(vs, doc) == IF ProxyVolume \in vs THEN doc ELSE NoDoc

NewContainer(nm, v, att, al, pm) ==
    [name |-> nm, vol |-> v, flags |-> FlagsCreated, attached |-> att,
     aliases |-> al, connects |-> 0, proxyMode |-> pm]

NameInUse(cs, nm) == \E c \in DOMAIN cs : cs[c].name = nm

\* DockerService.GetContainerState: an empty id and any ContainerInspect error
\* both come back as "does not exist".
GetContainerState(cs, cid, reachable) ==
    IF cid = NoHandle THEN NoState
    ELSE IF ~reachable \/ cid \notin DOMAIN cs THEN NoState
    ELSE [Exists |-> TRUE, Running |-> cs[cid].flags.Running,
          Restarting |-> cs[cid].flags.Restarting, Dead |-> cs[cid].flags.Dead,
          OOMKilled |-> cs[cid].flags.OOMKilled]

\* The mapping with the restarting test ahead of the running test.
SyncStatusReordered(state) ==
    IF ~state.Exists THEN StatusStopped
    ELSE IF state.Restarting THEN StatusCreating
    ELSE IF state.Running THEN StatusRunning
    ELSE IF state.Dead \/ state.OOMKilled THEN StatusError
    ELSE StatusStopped

\* syncProxyState: the status the container state maps to.
SyncStatus(state) ==
    IF ~state.Exists THEN StatusStopped
    ELSE IF state.Running THEN StatusRunning
    ELSE IF state.Restarting THEN StatusCreating
    ELSE IF state.Dead \/ state.OOMKilled THEN StatusError
    ELSE StatusStopped

\* A probe that keeps the container id of a container that is gone.
SyncHandleKept(state, cid) == cid

\* syncProxyState: the container id is cleared when the container is gone.
SyncHandle(state, cid) == IF ~state.Exists THEN NoHandle ELSE cid

\* A document that lists no server.
generateVelocityConfigEmpty(servers, defaultServer) ==
    [present |-> TRUE, servers |-> <<>>, try |-> <<>>]

\* generateVelocityConfig: the [servers] section and the try list.
generateVelocityConfig(servers, defaultServer) ==
    [present |-> TRUE,
     servers |-> [i \in 1..Len(servers) |->
                    [name |-> servers[i].Name,
                     addr |-> [host |-> servers[i].Name, port |-> BackendPort]]],
     try |-> IF defaultServer # "" THEN <<defaultServer>>
             ELSE [i \in 1..Len(servers) |-> servers[i].Name]]

\* An exec that works on any container id.
CanExecAlways(cs, cid) == TRUE

\* writeConfigToContainer: the exec needs a running container.
CanExec(cs, cid) ==
    /\ cid \in DOMAIN cs
    /\ cs[cid].flags.Running
    /\ ~cs[cid].flags.Restarting

\* ------------------------------------------------------------ repositories
\* A lookup that finds no row.
ProxyFindByIDMiss(rows, id) == NilProxy

\* ProxyRepository.FindByID: db.First(&proxy, "id = ?", id).
ProxyFindByID(rows, id) ==
    IF \E r \in rows : r.ID = id THEN CHOOSE r \in rows : r.ID = id ELSE NilProxy

\* A table without the primary key.
ProxyCreateOkNoKey(rows, row) == TRUE

\* ProxyRepository.Create: db.Create; ID is the primary key of the table.
ProxyCreateOk(rows, row) == \A r \in rows : r.ID # row.ID

\* An insert that stores nothing.
ProxyCreateDropped(rows, row) == rows

ProxyCreate(rows, row) == rows \cup {row}

\* ProxyRepository.Update: db.Save, an UPDATE by primary key that falls back to
\* an upsert when no row was updated.
ProxySave(rows, row) == {r \in rows : r.ID # row.ID} \cup {row}

IsLive(r) == ~r.Deleted

\* A query that returns the running instances only.
ServerFindAllRunning(rows) ==
    SelectSeq(rows, LAMBDA r : ~r.Deleted /\ r.Status = StatusRunning)

\* A query that also returns the soft-deleted rows.
ServerFindAllUnscoped(rows) == rows

\* ServerRepository.FindAll: db.Find, soft-deleted rows are filtered out.
ServerFindAll(rows) == SelectSeq(rows, IsLive)

\* ServerRepository.FindByID: db.First(&server, "id = ?", id).
ServerFindByID(rows, id) ==
    IF \E i \in 1..Len(rows) : rows[i].ID = id /\ ~rows[i].Deleted
    THEN rows[CHOOSE i \in 1..Len(rows) : rows[i].ID = id /\ ~rows[i].Deleted]
    ELSE NilServer

\* A table without the unique index on Name.
ServerCreateOkNoIndex(rows, row) ==
    \A i \in 1..Len(rows) : rows[i].ID # row.ID

\* ServerRepository.Create: db.Create; ID is the primary key and Name carries a
\* unique index that also covers the soft-deleted rows.
ServerCreateOk(rows, row) ==
    \A i \in 1..Len(rows) : rows[i].ID # row.ID /\ rows[i].Name # row.Name

ServerCreate(rows, row) == Append(rows, row)

\* An update that writes nothing.
ServerSaveDropped(rows, row) == rows

\* ServerRepository.Update: db.Save. UPDATE ... WHERE id = ? AND deleted_at IS
\* NULL; when that touches no row, INSERT ... ON CONFLICT (id) DO UPDATE of
\* every column, deleted_at included.
ServerSave(rows, row) ==
    IF \E i \in 1..Len(rows) : rows[i].ID = row.ID
    THEN [i \in 1..Len(rows) |-> IF rows[i].ID = row.ID THEN row ELSE rows[i]]
    ELSE Append(rows, row)

\* A delete that leaves the row as it is.
ServerDeleteKept(rows, id) == rows

\* ServerRepository.Delete: db.Delete without Unscoped sets deleted_at.
ServerDelete(rows, id) ==
    [i \in 1..Len(rows) |->
        IF rows[i].ID = id /\ ~rows[i].Deleted
        THEN [rows[i] EXCEPT !.Deleted = TRUE] ELSE rows[i]]

\* --------------------------------------------------------------- plumbing
\* A call may fail while the fault budget lasts.
Outcomes == IF faults < MaxFaults THEN {TRUE, FALSE} ELSE {TRUE}

Charge(ok) == faults' = IF ok THEN faults ELSE faults + 1

\* createProxy after StartProxy returned: the error is wrapped and returned
\* with a nil proxy, otherwise the local proxy is returned.
AfterStartProxy(l, e) == [l EXCEPT !.proxy = IF e = "" THEN @ ELSE NilProxy]

\* A probe whose result is not kept.
AfterProbeDropped(l, e) == [l EXCEPT !.hasProxy = FALSE, !.proxy = NilProxy, !.err = ""]

\* CreateServer after the first EnsureProxyExists: hasProxy, the proxy dropped.
AfterProbe(l, e) == [l EXCEPT !.hasProxy = (e = ""), !.proxy = NilProxy, !.err = ""]

\* CreateServer after the second EnsureProxyExists and after the connect and
\* regenerate calls: their errors are dropped.
AfterEnsure(l, e) == [l EXCEPT !.proxy = NilProxy, !.err = ""]

\* Returns from the running call with error e ("": nil): pops the frames whose
\* continuation is local computation and stops at the next call to make.
RECURSIVE Unwind(_, _)
Unwind(l, e) ==
    IF l.stk = <<>> THEN <<"done", [l EXCEPT !.err = e]>>
    ELSE LET f == Head(l.stk)
             l1 == [l EXCEPT !.stk = Tail(@)]
         IN  CASE f = "createProxy" -> Unwind(AfterStartProxy(l1, e), e)
               [] f = "probe" -> <<"c_create", AfterProbe(l1, e)>>
               [] f = "ensure" ->
                    IF e # "" THEN <<"done", AfterEnsure(l1, e)>>
                    ELSE <<"c_connect", AfterEnsure(l1, e)>>
               [] OTHER -> <<"done", AfterEnsure(l1, e)>>

\* A free task accepts the next request; of the free tasks the first one does.
Accept(p) ==
    /\ pc[p] = "idle"
    /\ \A q \in Procs : q < p => pc[q] # "idle"
    /\ Cardinality({q \in Procs : pc[q] # "idle"}) < width
    /\ ops > 0
    /\ ops' = ops - 1

Goto(p, label, l) ==
    /\ pc' = [pc EXCEPT ![p] = label]
    /\ loc' = [loc EXCEPT ![p] = l]

Return(p, l, e) == LET u == Unwind(l, e) IN Goto(p, u[1], u[2])

\* The manager right after start: nothing provisioned, both tables empty.
Fresh ==
    /\ containers = <<>>
    /\ volumes = {}
    /\ patched = {}
    /\ network = FALSE
    /\ deployed = NoDoc
    /\ proxyRows = {}
    /\ serverRows = <<>>
    /\ nextSid = 1
    /\ nextPc = 0

Tasks ==
    /\ pc = [p \in Procs |-> "idle"]
    /\ loc = [p \in Procs |-> LocInit]
    /\ hist = NoHist
    /\ faults = 0
    /\ envs = 0
    /\ stream = NoStream

Init == Fresh /\ Tasks /\ ops = MaxOps /\ width = 1

InitRace == Fresh /\ Tasks /\ ops = MaxRaceOps /\ width = Cardinality(Procs)

\* The manager after a first EnsureProxyExists has returned: the proxy is
\* provisioned, stored and running.
ProxyReady ==
    /\ containers = (-1 :> [NewContainer("mc-proxy-main", ProxyVolume, TRUE,
                                         {"velocity-proxy", "proxy"}, FALSE)
                            EXCEPT !.flags = FlagsRunning])
    /\ volumes = {ProxyVolume}
    /\ patched = {}
    /\ network = TRUE
    /\ deployed = NoDoc
    /\ proxyRows = {[ID |-> SingleProxyID, ContainerID |-> -1, VolumeID |-> ProxyVolume,
                     DefaultServerID |-> NoHandle, Status |-> StatusRunning,
                     Port |-> DefaultProxyPort]}
    /\ serverRows = <<>>
    /\ nextSid = 1
    /\ nextPc = 1

InitServers == ProxyReady /\ Tasks /\ ops = MaxRaceOps /\ width = Cardinality(Procs)

\* ---------------------------------------------- ProxyService.EnsureProxyExists
BeginEnsureProxyExists(p) ==
    /\ Accept(p)
    /\ Goto(p, "e_find", [LocInit EXCEPT !.op = "EnsureProxyExists"])
    /\ UNCHANGED <<runtimeVars, proxyRows, serverRows, nextSid, nextPc, hist, faults, envs, width, stream>>

\* A check that never takes the row for found.
EnsureFoundNever(row) == FALSE

\* EnsureProxyExists: err == nil after proxyRepo.FindByID.
EnsureFound(row) == row.ID # ""

\* proxyRepo.FindByID; any error, not only "proxy not found", leads to createProxy.
EnsureFind(p) ==
    /\ pc[p] = "e_find"
    /\ \E ok \in Outcomes :
        LET row == IF ok THEN ProxyFindByID(proxyRows, SingleProxyID) ELSE NilProxy
            l == [loc[p] EXCEPT !.proxy = row]
        IN  /\ Charge(ok)
            /\ IF EnsureFound(row) THEN Return(p, l, "") ELSE Goto(p, "e_volume", l)
    /\ UNCHANGED <<runtimeVars, proxyRows, serverRows, nextSid, nextPc, hist, envs, ops, width, stream>>

\* createProxy: client.VolumeCreate("mc-proxy-main"), which returns the
\* existing volume when the name is taken.
CreateProxyVolume(p) ==
    /\ pc[p] = "e_volume"
    /\ \E ok \in Outcomes :
        /\ Charge(ok)
        /\ IF ok
           THEN /\ volumes' = volumes \cup {ProxyVolume}
                /\ Goto(p, "e_pull", [loc[p] EXCEPT !.created = TRUE])
           ELSE /\ volumes' = volumes
                /\ Return(p, loc[p], "volume")
    /\ UNCHANGED <<containers, patched, network, deployed, proxyRows, serverRows,
                   nextSid, nextPc, hist, envs, ops, width, stream>>

\* createProxy: PullImage, on failure the volume is removed.
CreateProxyPull(p) ==
    /\ pc[p] = "e_pull"
    /\ \E ok \in Outcomes :
        /\ Charge(ok)
        /\ IF ok
           THEN /\ UNCHANGED <<volumes, deployed>>
                /\ Goto(p, "e_network", loc[p])
           ELSE /\ volumes' = VolumeRemove(volumes, containers, ProxyVolume)
                /\ deployed' = DocAfter(volumes', deployed)
                /\ Return(p, loc[p], "image")
    /\ UNCHANGED <<containers, patched, network, proxyRows, serverRows,
                   nextSid, nextPc, hist, envs, ops, width, stream>>

\* createProxy: ensureNetwork (NetworkList, NetworkCreate when absent).
CreateProxyNetwork(p) ==
    /\ pc[p] = "e_network"
    /\ \E ok \in Outcomes :
        /\ Charge(ok)
        /\ IF ok
           THEN /\ network' = TRUE
                /\ UNCHANGED <<volumes, deployed>>
                /\ Goto(p, "e_container", loc[p])
           ELSE /\ network' = network
                /\ volumes' = VolumeRemove(volumes, containers, ProxyVolume)
                /\ deployed' = DocAfter(volumes', deployed)
                /\ Return(p, loc[p], "network")
    /\ UNCHANGED <<containers, patched, proxyRows, serverRows, nextSid, nextPc, hist, envs, ops, width, stream>>

\* createProxy: client.ContainerCreate(..., "mc-proxy-main"); the daemon
\* rejects a container name that is in use.
CreateProxyContainer(p) ==
    /\ pc[p] = "e_container"
    /\ nextPc < MaxProxyContainers \/ NameInUse(containers, "mc-proxy-main")
    /\ \E ok \in Outcomes :
        /\ Charge(ok)
        /\ IF ok /\ ~NameInUse(containers, "mc-proxy-main") /\ ProxyVolume \in volumes
           THEN LET cid == -(nextPc + 1)
                    row == [ID |-> SingleProxyID, ContainerID |-> cid,
                            VolumeID |-> ProxyVolume, DefaultServerID |-> NoHandle,
                            Status |-> StatusCreating, Port |-> DefaultProxyPort]
                IN  /\ containers' = (cid :> NewContainer("mc-proxy-main", ProxyVolume, TRUE,
                                                          {"velocity-proxy", "proxy"}, FALSE))
                                     @@ containers
                    /\ nextPc' = nextPc + 1
                    /\ UNCHANGED <<volumes, deployed>>
                    /\ Goto(p, "e_save", [loc[p] EXCEPT !.proxy = row])
           ELSE /\ UNCHANGED <<containers, nextPc>>
                /\ volumes' = VolumeRemove(volumes, containers, ProxyVolume)
                /\ deployed' = DocAfter(volumes', deployed)
                /\ Return(p, loc[p], "container")
    /\ UNCHANGED <<patched, network, proxyRows, serverRows, nextSid, hist, envs, ops, width, stream>>

\* createProxy: proxyRepo.Create; on failure container and volume are removed.
\* On success StartProxy is called.
CreateProxySave(p) ==
    /\ pc[p] = "e_save"
    /\ \E ok \in Outcomes :
        LET l == loc[p] IN
        /\ Charge(ok)
        /\ IF ok /\ ProxyCreateOk(proxyRows, l.proxy)
           THEN /\ proxyRows' = ProxyCreate(proxyRows, l.proxy)
                /\ UNCHANGED <<containers, volumes, deployed>>
                /\ Goto(p, "sp_find", [l EXCEPT !.stk = <<"createProxy">> \o @])
           ELSE /\ proxyRows' = proxyRows
                /\ containers' = ContainerRemove(containers, l.proxy.ContainerID)
                /\ volumes' = VolumeRemove(volumes, containers', ProxyVolume)
                /\ deployed' = DocAfter(volumes', deployed)
                /\ Return(p, [l EXCEPT !.proxy = NilProxy], "database")
    /\ UNCHANGED <<patched, network, serverRows, nextSid, nextPc, hist, envs, ops, width, stream>>

\* ----------------------------------------------------- ProxyService.StartProxy
BeginStartProxy(p) ==
    /\ Accept(p)
    /\ proxyRows # {}
    /\ Goto(p, "sp_find", [LocInit EXCEPT !.op = "StartProxy"])
    /\ UNCHANGED <<runtimeVars, proxyRows, serverRows, nextSid, nextPc, hist, faults, envs, width, stream>>

StartProxyFind(p) ==
    /\ pc[p] = "sp_find"
    /\ \E ok \in Outcomes :
        LET row == IF ok THEN ProxyFindByID(proxyRows, SingleProxyID) ELSE NilProxy
            l == [loc[p] EXCEPT !.sproxy = row]
        IN  /\ Charge(ok)
            /\ IF row.ID = "" THEN Return(p, l, "proxy not found")
               ELSE Goto(p, "sp_start", l)
    /\ UNCHANGED <<runtimeVars, proxyRows, serverRows, nextSid, nextPc, hist, envs, ops, width, stream>>

StartProxyContainer(p) ==
    /\ pc[p] = "sp_start"
    /\ \E ok \in Outcomes :
        LET c == loc[p].sproxy.ContainerID IN
        /\ Charge(ok)
        /\ IF ok /\ c \in DOMAIN containers
           THEN /\ containers' = [containers EXCEPT ![c].flags = FlagsRunning]
                /\ Goto(p, "sp_update", [loc[p] EXCEPT !.sproxy.Status = StatusRunning])
           ELSE /\ containers' = containers
                /\ Return(p, loc[p], "start")
    /\ UNCHANGED <<volumes, patched, network, deployed, proxyRows, serverRows,
                   nextSid, nextPc, hist, envs, ops, width, stream>>

StartProxyUpdate(p) ==
    /\ pc[p] = "sp_update"
    /\ \E ok \in Outcomes :
        /\ Charge(ok)
        /\ proxyRows' = IF ok THEN ProxySave(proxyRows, loc[p].sproxy) ELSE proxyRows
        /\ Return(p, loc[p], IF ok THEN "" ELSE "database")
    /\ UNCHANGED <<runtimeVars, serverRows, nextSid, nextPc, hist, envs, ops, width, stream>>

\* ------------------------------------------------------ ProxyService.StopProxy
BeginStopProxy(p) ==
    /\ Accept(p)
    /\ proxyRows # {}
    /\ \E ok \in Outcomes :
        LET row == IF ok THEN ProxyFindByID(proxyRows, SingleProxyID) ELSE NilProxy
            l == [LocInit EXCEPT !.op = "StopProxy", !.sproxy = row]
        IN  /\ Charge(ok)
            /\ IF row.ID = "" THEN Return(p, l, "proxy not found")
               ELSE Goto(p, "xp_stop", l)
    /\ UNCHANGED <<runtimeVars, proxyRows, serverRows, nextSid, nextPc, hist, envs, width, stream>>

StopProxyContainer(p) ==
    /\ pc[p] = "xp_stop"
    /\ \E ok \in Outcomes :
        LET c == loc[p].sproxy.ContainerID IN
        /\ Charge(ok)
        /\ IF ok /\ c \in DOMAIN containers
           THEN /\ containers' = [containers EXCEPT ![c].flags = FlagsCreated]
                /\ Goto(p, "xp_update", [loc[p] EXCEPT !.sproxy.Status = StatusStopped])
           ELSE /\ containers' = containers
                /\ Return(p, loc[p], "stop")
    /\ UNCHANGED <<volumes, patched, network, deployed, proxyRows, serverRows,
                   nextSid, nextPc, hist, envs, ops, width, stream>>

StopProxyUpdate(p) ==
    /\ pc[p] = "xp_update"
    /\ \E ok \in Outcomes :
        /\ Charge(ok)
        /\ proxyRows' = IF ok THEN ProxySave(proxyRows, loc[p].sproxy) ELSE proxyRows
        /\ Return(p, loc[p], IF ok THEN "" ELSE "database")
    /\ UNCHANGED <<runtimeVars, serverRows, nextSid, nextPc, hist, envs, ops, width, stream>>

\* ------------------------------------------------------- ProxyService.GetProxy
\* proxyRepo.FindByID; an error fails the read.
BeginGetProxy(p) ==
    /\ Accept(p)
    /\ \E ok \in Outcomes :
        LET row == IF ok THEN ProxyFindByID(proxyRows, SingleProxyID) ELSE NilProxy
            l == [LocInit EXCEPT !.op = "GetProxy", !.proxy = row, !.found = row]
        IN  /\ Charge(ok)
            /\ IF row.ID = "" THEN Return(p, l, "proxy not found")
               ELSE Goto(p, "g_sync", l)
    /\ UNCHANGED <<runtimeVars, proxyRows, serverRows, nextSid, nextPc, hist, envs, width, stream>>

\* syncProxyState: GetContainerState and the new status; the update follows
\* when the status changed.
SyncProxyInspect(p) ==
    /\ pc[p] = "g_sync"
    /\ \E ok \in (IF loc[p].proxy.ContainerID = NoHandle THEN {TRUE} ELSE Outcomes) :
        LET l == loc[p]
            state == GetContainerState(containers, l.proxy.ContainerID, ok)
            newStatus == SyncStatus(state)
            l1 == [l EXCEPT !.state = state, !.unreachable = ~ok,
                            !.proxy.ContainerID = SyncHandle(state, @)]
        IN  /\ Charge(ok)
            /\ IF newStatus # l.proxy.Status
               THEN Goto(p, "g_update", [l1 EXCEPT !.proxy.Status = newStatus])
               ELSE Return(p, l1, "")
    /\ UNCHANGED <<runtimeVars, proxyRows, serverRows, nextSid, nextPc, hist, envs, ops, width, stream>>

\* syncProxyState: proxyRepo.Update; GetProxy logs a failure and returns the
\* proxy all the same.
SyncProxyUpdate(p) ==
    /\ pc[p] = "g_update"
    /\ \E ok \in Outcomes :
        /\ Charge(ok)
        /\ proxyRows' = IF ok THEN ProxySave(proxyRows, loc[p].proxy) ELSE proxyRows
        /\ Return(p, loc[p], "")
    /\ UNCHANGED <<runtimeVars, serverRows, nextSid, nextPc, hist, envs, ops, width, stream>>

\* ------------------------------------------ ProxyService.RegenerateProxyConfig
BeginRegenerateProxyConfig(p) ==
    /\ Accept(p)
    /\ Goto(p, "r_find", [LocInit EXCEPT !.op = "RegenerateProxyConfig"])
    /\ UNCHANGED <<runtimeVars, proxyRows, serverRows, nextSid, nextPc, hist, faults, envs, width, stream>>

RegenerateFindProxy(p) ==
    /\ pc[p] = "r_find"
    /\ \E ok \in Outcomes :
        LET row == IF ok THEN ProxyFindByID(proxyRows, SingleProxyID) ELSE NilProxy
            l == [loc[p] EXCEPT !.proxy = row]
        IN  /\ Charge(ok)
            /\ IF row.ID = "" THEN Return(p, l, "proxy not found")
               ELSE Goto(p, "r_all", l)
    /\ UNCHANGED <<runtimeVars, proxyRows, serverRows, nextSid, nextPc, hist, envs, ops, width, stream>>

\* serverRepo.FindAll; the default server is looked up next when one is set.
RegenerateFindAll(p) ==
    /\ pc[p] = "r_all"
    /\ \E ok \in Outcomes :
        LET l == [loc[p] EXCEPT !.list = ServerFindAll(serverRows), !.defname = ""] IN
        /\ Charge(ok)
        /\ IF ~ok THEN Return(p, loc[p], "database")
           ELSE IF l.proxy.DefaultServerID # NoHandle THEN Goto(p, "r_default", l)
           ELSE Goto(p, "r_write", l)
    /\ UNCHANGED <<runtimeVars, proxyRows, serverRows, nextSid, nextPc, hist, envs, ops, width, stream>>

\* serverRepo.FindByID(proxy.DefaultServerID); an error fails the regeneration.
RegenerateFindDefault(p) ==
    /\ pc[p] = "r_default"
    /\ \E ok \in Outcomes :
        LET server == IF ok THEN ServerFindByID(serverRows, loc[p].proxy.DefaultServerID)
                      ELSE NilServer
        IN  /\ Charge(ok)
            /\ IF server.ID = NoHandle THEN Return(p, loc[p], "server not found")
               ELSE Goto(p, "r_write", [loc[p] EXCEPT !.defname = server.Name])
    /\ UNCHANGED <<runtimeVars, proxyRows, serverRows, nextSid, nextPc, hist, envs, ops, width, stream>>

\* generateVelocityConfig and writeConfigToContainer.
RegenerateWrite(p) ==
    /\ pc[p] = "r_write"
    /\ \E ok \in Outcomes :
        LET l == loc[p]
            config == generateVelocityConfig(l.list, l.defname)
        IN  /\ Charge(ok)
            /\ IF ok /\ CanExec(containers, l.proxy.ContainerID)
               THEN /\ deployed' = config
                    /\ Return(p, l, "")
               ELSE /\ deployed' = deployed
                    /\ Return(p, l, "exec")
    /\ UNCHANGED <<containers, volumes, patched, network, proxyRows, serverRows,
                   nextSid, nextPc, hist, envs, ops, width, stream>>

\* ---------------------------------------- ProxyService.ConnectServerToProxy
\* A connect without the "already connected" check.
ConnectAgain(cs, c, name) ==
    [cs EXCEPT ![c].attached = TRUE, ![c].aliases = @ \cup {name}, ![c].connects = @ + 1]

\* ensureNetwork, ContainerInspect, and NetworkConnect with the server name as
\* the alias unless the container is on the network already.
Connect(cs, c, name) ==
    IF cs[c].attached THEN cs
    ELSE [cs EXCEPT ![c].attached = TRUE, ![c].aliases = {name}, ![c].connects = @ + 1]

\* ConnectServerToProxy called for a stored server.
BeginConnectServerToProxy(p, id) ==
    /\ Accept(p)
    /\ ServerFindByID(serverRows, id).ID # NoHandle
    /\ Goto(p, "n_connect", [LocInit EXCEPT !.op = "ConnectServerToProxy", !.id = id,
                                            !.server = ServerFindByID(serverRows, id)])
    /\ UNCHANGED <<runtimeVars, proxyRows, serverRows, nextSid, nextPc, hist, faults, envs, width, stream>>

\* ensureNetwork, ContainerInspect and NetworkConnect; any error is returned.
ConnectServerToProxyCall(p) ==
    /\ pc[p] = "n_connect"
    /\ \E ok \in Outcomes :
        LET l == loc[p]
            c == l.server.ContainerID
        IN  /\ Charge(ok)
            /\ IF ok /\ c \in DOMAIN containers
               THEN /\ network' = TRUE
                    /\ containers' = Connect(containers, c, l.server.Name)
                    /\ Return(p, [l EXCEPT !.connected = containers[c].attached], "")
               ELSE /\ UNCHANGED <<network, containers>>
                    /\ Return(p, l, "connect")
    /\ UNCHANGED <<volumes, patched, deployed, proxyRows, serverRows,
                   nextSid, nextPc, hist, envs, ops, width, stream>>

\* ------------------------------------------ MinecraftServerService.CreateServer
\* uuid.New and the request defaults.
BeginCreateServer(p, req) ==
    /\ Accept(p)
    /\ nextSid <= MaxServers
    /\ nextSid' = nextSid + 1
    /\ Goto(p, "c_volume",
            [LocInit EXCEPT !.op = "CreateServer", !.name = req.name, !.id = nextSid,
                            !.maxp = IF req.max_players = 0 THEN DefaultMaxPlayers
                                     ELSE req.max_players])
    /\ UNCHANGED <<runtimeVars, proxyRows, serverRows, nextPc, hist, faults, envs, width, stream>>

\* client.VolumeCreate("mc-server-<id>").
CreateServerVolume(p) ==
    /\ pc[p] = "c_volume"
    /\ \E ok \in Outcomes :
        /\ Charge(ok)
        /\ IF ok
           THEN /\ volumes' = volumes \cup {loc[p].id}
                /\ Goto(p, "c_pull", loc[p])
           ELSE /\ volumes' = volumes
                /\ Return(p, loc[p], "volume")
    /\ UNCHANGED <<containers, patched, network, deployed, proxyRows, serverRows,
                   nextSid, nextPc, hist, envs, ops, width, stream>>

\* PullImage; on failure the volume is removed. On success the proxy is probed
\* with EnsureProxyExists.
CreateServerPull(p) ==
    /\ pc[p] = "c_pull"
    /\ \E ok \in Outcomes :
        /\ Charge(ok)
        /\ IF ok
           THEN /\ volumes' = volumes
                /\ Goto(p, "e_find", [loc[p] EXCEPT !.stk = <<"probe">> \o @])
           ELSE /\ volumes' = VolumeRemove(volumes, containers, loc[p].id)
                /\ Return(p, loc[p], "image")
    /\ UNCHANGED <<containers, patched, network, deployed, proxyRows, serverRows,
                   nextSid, nextPc, hist, envs, ops, width, stream>>

\* client.ContainerCreate("mc-server-<id>") with ONLINE_MODE=FALSE when
\* hasProxy; on failure the volume is removed.
CreateServerContainer(p) ==
    /\ pc[p] = "c_create"
    /\ \E ok \in Outcomes :
        LET l == loc[p]
            server == [ID |-> l.id, Name |-> l.name, ContainerID |-> l.id,
                       VolumeID |-> l.id, Status |-> StatusCreating,
                       MaxPlayers |-> l.maxp, Deleted |-> FALSE]
        IN  /\ Charge(ok)
            /\ IF ok /\ l.id \in volumes
               THEN /\ containers' = (l.id :> NewContainer("mc-server", l.id, FALSE, {},
                                                           l.hasProxy)) @@ containers
                    /\ volumes' = volumes
                    /\ Goto(p, IF l.hasProxy THEN "c_patch" ELSE "c_save",
                            [l EXCEPT !.server = server])
               ELSE /\ containers' = containers
                    /\ volumes' = VolumeRemove(volumes, containers, l.id)
                    /\ Return(p, l, "container")
    /\ UNCHANGED <<patched, network, deployed, proxyRows, serverRows,
                   nextSid, nextPc, hist, envs, ops, width, stream>>

\* A helper container that writes nothing.
PatchSkipped(ps, v) == ps

\* The helper container's command: /data/patches/bungeecord.json is written
\* into the volume.
PatchStaged(ps, v) == ps \cup {v}

\* createBungeeCordPatchFileInVolume: a helper container writes the patch file
\* and is removed again; on failure container and volume are removed.
CreateServerPatch(p) ==
    /\ pc[p] = "c_patch"
    /\ \E ok \in Outcomes :
        LET l == loc[p] IN
        /\ Charge(ok)
        /\ IF ok /\ l.server.VolumeID \in volumes
           THEN /\ patched' = PatchStaged(patched, l.server.VolumeID)
                /\ UNCHANGED <<containers, volumes>>
                /\ Goto(p, "c_save", l)
           ELSE /\ patched' = patched
                /\ containers' = ContainerRemove(containers, l.server.ContainerID)
                /\ volumes' = VolumeRemove(volumes, containers', l.server.VolumeID)
                /\ Return(p, [l EXCEPT !.server = NilServer], "patch")
    /\ UNCHANGED <<network, deployed, proxyRows, serverRows, nextSid, nextPc, hist, envs, ops, width, stream>>

\* repo.Create; on failure container and volume are removed. On success
\* EnsureProxyExists is called again.
CreateServerSave(p) ==
    /\ pc[p] = "c_save"
    /\ \E ok \in Outcomes :
        LET l == loc[p] IN
        /\ Charge(ok)
        /\ IF ok /\ ServerCreateOk(serverRows, l.server)
           THEN /\ serverRows' = ServerCreate(serverRows, l.server)
                /\ UNCHANGED <<containers, volumes, patched>>
                /\ Goto(p, "e_find", [l EXCEPT !.stk = <<"ensure">> \o @])
           ELSE /\ serverRows' = serverRows
                /\ containers' = ContainerRemove(containers, l.server.ContainerID)
                /\ volumes' = VolumeRemove(volumes, containers', l.server.VolumeID)
                /\ patched' = patched \cap volumes'
                /\ Return(p, [l EXCEPT !.server = NilServer],
                          IF ok THEN "conflict" ELSE "database")
    /\ UNCHANGED <<network, deployed, proxyRows, nextSid, nextPc, hist, envs, ops, width, stream>>

\* ConnectServerToProxy; on success RegenerateProxyConfig is called, on failure
\* the server is returned as it is.
CreateServerConnect(p) ==
    /\ pc[p] = "c_connect"
    /\ \E ok \in Outcomes :
        LET l == loc[p]
            c == l.server.ContainerID
        IN  /\ Charge(ok)
            /\ IF ok /\ c \in DOMAIN containers
               THEN /\ network' = TRUE
                    /\ containers' = Connect(containers, c, l.server.Name)
                    /\ Goto(p, "r_find", [l EXCEPT !.stk = <<"regenerate">> \o @])
               ELSE /\ UNCHANGED <<network, containers>>
                    /\ Return(p, l, "")
    /\ UNCHANGED <<volumes, patched, deployed, proxyRows, serverRows,
                   nextSid, nextPc, hist, envs, ops, width, stream>>

\* ------------------------------- MinecraftServerService.GetServer / ListServers
GetServer(p, id) ==
    /\ Accept(p)
    /\ \E ok \in Outcomes :
        LET row == IF ok THEN ServerFindByID(serverRows, id) ELSE NilServer IN
        /\ Charge(ok)
        /\ Goto(p, "done", [LocInit EXCEPT !.op = "GetServer", !.id = id, !.server = row,
                                         !.err = IF row.ID = NoHandle
                                                 THEN "server not found" ELSE ""])
    /\ UNCHANGED <<runtimeVars, proxyRows, serverRows, nextSid, nextPc, hist, envs, width, stream>>

ListServers(p) ==
    /\ Accept(p)
    /\ \E ok \in Outcomes :
        /\ Charge(ok)
        /\ Goto(p, "done", [LocInit EXCEPT !.op = "ListServers",
                                         !.list = IF ok THEN ServerFindAll(serverRows) ELSE <<>>,
                                         !.err = IF ok THEN "" ELSE "database"])
    /\ UNCHANGED <<runtimeVars, proxyRows, serverRows, nextSid, nextPc, hist, envs, width, stream>>

\* ------------------------------ MinecraftServerService.StartServer / StopServer
\* repo.FindByID.
BeginStartServer(p, id) ==
    /\ Accept(p)
    /\ \E ok \in Outcomes :
        LET row == IF ok THEN ServerFindByID(serverRows, id) ELSE NilServer
            l == [LocInit EXCEPT !.op = "StartServer", !.id = id, !.server = row]
        IN  /\ Charge(ok)
            /\ IF row.ID = NoHandle THEN Return(p, l, "server not found")
               ELSE Goto(p, "s_start", l)
    /\ UNCHANGED <<runtimeVars, proxyRows, serverRows, nextSid, nextPc, hist, envs, width, stream>>

StartServerContainer(p) ==
    /\ pc[p] = "s_start"
    /\ \E ok \in Outcomes :
        LET c == loc[p].server.ContainerID IN
        /\ Charge(ok)
        /\ IF ok /\ c \in DOMAIN containers
           THEN /\ containers' = [containers EXCEPT ![c].flags = FlagsRunning]
                /\ Goto(p, "s_update", [loc[p] EXCEPT !.server.Status = StatusRunning])
           ELSE /\ containers' = containers
                /\ Return(p, loc[p], "start")
    /\ UNCHANGED <<volumes, patched, network, deployed, proxyRows, serverRows,
                   nextSid, nextPc, hist, envs, ops, width, stream>>

\* repo.Update closes StartServer and StopServer alike.
ServerUpdate(p) ==
    /\ pc[p] = "s_update"
    /\ \E ok \in Outcomes :
        /\ Charge(ok)
        /\ serverRows' = IF ok THEN ServerSave(serverRows, loc[p].server) ELSE serverRows
        /\ Return(p, loc[p], IF ok THEN "" ELSE "database")
    /\ UNCHANGED <<runtimeVars, proxyRows, nextSid, nextPc, hist, envs, ops, width, stream>>

BeginStopServer(p, id) ==
    /\ Accept(p)
    /\ \E ok \in Outcomes :
        LET row == IF ok THEN ServerFindByID(serverRows, id) ELSE NilServer
            l == [LocInit EXCEPT !.op = "StopServer", !.id = id, !.server = row]
        IN  /\ Charge(ok)
            /\ IF row.ID = NoHandle THEN Return(p, l, "server not found")
               ELSE Goto(p, "s_stop", l)
    /\ UNCHANGED <<runtimeVars, proxyRows, serverRows, nextSid, nextPc, hist, envs, width, stream>>

StopServerContainer(p) ==
    /\ pc[p] = "s_stop"
    /\ \E ok \in Outcomes :
        LET c == loc[p].server.ContainerID IN
        /\ Charge(ok)
        /\ IF ok /\ c \in DOMAIN containers
           THEN /\ containers' = [containers EXCEPT ![c].flags = FlagsCreated]
                /\ Goto(p, "s_update", [loc[p] EXCEPT !.server.Status = StatusStopped])
           ELSE /\ containers' = containers
                /\ Return(p, loc[p], "stop")
    /\ UNCHANGED <<volumes, patched, network, deployed, proxyRows, serverRows,
                   nextSid, nextPc, hist, envs, ops, width, stream>>

\* ------------------------------------------ MinecraftServerService.DeleteServer
BeginDeleteServer(p, id) ==
    /\ Accept(p)
    /\ \E ok \in Outcomes :
        LET row == IF ok THEN ServerFindByID(serverRows, id) ELSE NilServer
            l == [LocInit EXCEPT !.op = "DeleteServer", !.id = id, !.server = row]
        IN  /\ Charge(ok)
            /\ IF row.ID = NoHandle THEN Return(p, l, "server not found")
               ELSE Goto(p, "d_stop", l)
    /\ UNCHANGED <<runtimeVars, proxyRows, serverRows, nextSid, nextPc, hist, envs, width, stream>>

\* client.ContainerStop, its error ignored.
DeleteServerStop(p) ==
    /\ pc[p] = "d_stop"
    /\ \E ok \in Outcomes :
        LET c == loc[p].server.ContainerID IN
        /\ Charge(ok)
        /\ containers' = IF ok /\ c \in DOMAIN containers
                         THEN [containers EXCEPT ![c].flags = FlagsCreated]
                         ELSE containers
        /\ Goto(p, "d_remove", loc[p])
    /\ UNCHANGED <<volumes, patched, network, deployed, proxyRows, serverRows,
                   nextSid, nextPc, hist, envs, ops, width, stream>>

\* client.ContainerRemove(Force); a missing container is an error.
DeleteServerRemove(p) ==
    /\ pc[p] = "d_remove"
    /\ \E ok \in Outcomes :
        LET c == loc[p].server.ContainerID IN
        /\ Charge(ok)
        /\ IF ok /\ c \in DOMAIN containers
           THEN /\ containers' = ContainerRemove(containers, c)
                /\ Goto(p, "d_volume", loc[p])
           ELSE /\ containers' = containers
                /\ Return(p, loc[p], "remove")
    /\ UNCHANGED <<volumes, patched, network, deployed, proxyRows, serverRows,
                   nextSid, nextPc, hist, envs, ops, width, stream>>

\* client.VolumeRemove(force); a volume in use is an error.
DeleteServerVolume(p) ==
    /\ pc[p] = "d_volume"
    /\ \E ok \in Outcomes :
        LET v == loc[p].server.VolumeID IN
        /\ Charge(ok)
        /\ IF ok /\ UsersOf(containers, v) = {}
           THEN /\ volumes' = volumes \ {v}
                /\ patched' = patched \ {v}
                /\ Goto(p, "d_row", loc[p])
           ELSE /\ UNCHANGED <<volumes, patched>>
                /\ Return(p, loc[p], "volume")
    /\ UNCHANGED <<containers, network, deployed, proxyRows, serverRows,
                   nextSid, nextPc, hist, envs, ops, width, stream>>

\* repo.Delete; no row affected is "server not found".
DeleteServerRow(p) ==
    /\ pc[p] = "d_row"
    /\ \E ok \in Outcomes :
        LET id == loc[p].id
            hit == ServerFindByID(serverRows, id).ID # NoHandle
        IN  /\ Charge(ok)
            /\ serverRows' = IF ok THEN ServerDelete(serverRows, id) ELSE serverRows
            /\ Return(p, loc[p], IF ~ok THEN "database"
                                 ELSE IF ~hit THEN "server not found" ELSE "")
    /\ UNCHANGED <<runtimeVars, proxyRows, nextSid, nextPc, hist, envs, ops, width, stream>>

\* ------------------------------------------------- ProxyService.UpdateProxy
\* PATCH /proxy: the default target of the stored proxy is replaced.
SetDefaultTarget(p, d) ==
    /\ Accept(p)
    /\ proxyRows # {}
    /\ LET row == ProxyFindByID(proxyRows, SingleProxyID) IN
        /\ row.DefaultServerID # d
        /\ proxyRows' = ProxySave(proxyRows, [row EXCEPT !.DefaultServerID = d])
    /\ hist' = NoHist
    /\ UNCHANGED <<runtimeVars, serverRows, nextSid, nextPc, pc, loc, faults, envs, width, stream>>

\* ------------------------------------------------------------- environment
\* When requests are served one at a time the environment acts between them.
Quiet == width = 1 => \A p \in Procs : pc[p] = "idle"

\* docker rm -f from outside the manager.
ExternalRemove(c) ==
    /\ Quiet
    /\ envs < MaxEnv
    /\ c \in DOMAIN containers
    /\ containers' = ContainerRemove(containers, c)
    /\ envs' = envs + 1
    /\ hist' = NoHist
    /\ UNCHANGED <<volumes, patched, network, deployed, proxyRows, serverRows,
                   nextSid, nextPc, pc, loc, faults, ops, width, stream>>

EnvFlags == {FlagsCreated, FlagsRunning, FlagsRestarting, FlagsDead, FlagsOOM}

\* The container exits, crashes, is OOM-killed or is restarted by the daemon.
ExternalState(c, f) ==
    /\ Quiet
    /\ envs < MaxEnv
    /\ c \in DOMAIN containers
    /\ containers[c].flags # f
    /\ containers' = [containers EXCEPT ![c].flags = f]
    /\ envs' = envs + 1
    /\ hist' = NoHist
    /\ UNCHANGED <<volumes, patched, network, deployed, proxyRows, serverRows,
                   nextSid, nextPc, pc, loc, faults, ops, width, stream>>

Env ==
    \/ \E c \in DOMAIN containers : ExternalRemove(c)
    \/ \E c \in DOMAIN containers : \E f \in EnvFlags : ExternalState(c, f)

\* ------------------------------------------------------------ end of a call
\* The handler returns; the task is free for the next request.
Done(p) ==
    /\ pc[p] = "done"
    /\ pc' = [pc EXCEPT ![p] = "idle"]
    /\ loc' = [loc EXCEPT ![p] = LocInit]
    /\ hist' = IF loc[p].op = "EnsureProxyExists" /\ loc[p].err = ""
               THEN [ok |-> TRUE, out |-> loc[p].proxy, created |-> loc[p].created,
                     cids |-> DOMAIN containers, vols |-> volumes]
               ELSE NoHist
    /\ UNCHANGED <<runtimeVars, proxyRows, serverRows, nextSid, nextPc, faults, envs, ops, width, stream>>

\* The steps of EnsureProxyExists, and the end of any request.
EnsureStep(p) ==
    \/ EnsureFind(p)
    \/ CreateProxyVolume(p)
    \/ CreateProxyPull(p)
    \/ CreateProxyNetwork(p)
    \/ CreateProxyContainer(p)
    \/ CreateProxySave(p)
    \/ Done(p)

\* The steps of StartProxy, which createProxy calls after it stored the row.
StartProxyStep(p) ==
    \/ StartProxyFind(p)
    \/ StartProxyContainer(p)
    \/ StartProxyUpdate(p)

\* The steps of RegenerateProxyConfig.
RegenerateStep(p) ==
    \/ RegenerateFindProxy(p)
    \/ RegenerateFindAll(p)
    \/ RegenerateWrite(p)

\* Setting a default target, and the lookup it adds to a regeneration.
DefaultStep(p) ==
    \/ \E d \in 0..MaxServers : SetDefaultTarget(p, d)
    \/ RegenerateFindDefault(p)

\* Requests on the proxy.
ProxyStep(p) ==
    \/ BeginEnsureProxyExists(p)
    \/ BeginStartProxy(p)
    \/ BeginStopProxy(p)
    \/ StopProxyContainer(p)
    \/ StopProxyUpdate(p)
    \/ BeginGetProxy(p)
    \/ SyncProxyInspect(p)
    \/ SyncProxyUpdate(p)
    \/ BeginRegenerateProxyConfig(p)

\* Requests that change servers.
ServerStep(p) ==
    \/ \E req \in Requests : BeginCreateServer(p, req)
    \/ CreateServerVolume(p)
    \/ CreateServerPull(p)
    \/ CreateServerContainer(p)
    \/ CreateServerPatch(p)
    \/ CreateServerSave(p)
    \/ CreateServerConnect(p)
    \/ \E id \in 1..MaxServers : BeginStartServer(p, id)
    \/ StartServerContainer(p)
    \/ \E id \in 1..MaxServers : BeginStopServer(p, id)
    \/ StopServerContainer(p)
    \/ ServerUpdate(p)
    \/ \E id \in 1..MaxServers : BeginDeleteServer(p, id)
    \/ DeleteServerStop(p)
    \/ DeleteServerRemove(p)
    \/ DeleteServerVolume(p)
    \/ DeleteServerRow(p)

\* Requests that read servers.
ReadStep(p) ==
    \/ \E id \in 1..MaxServers : GetServer(p, id)
    \/ ListServers(p)

\* Every request, served one after the other from a fresh manager.
Next ==
    \/ \E p \in Procs :
         \/ EnsureStep(p)
         \/ StartProxyStep(p)
         \/ RegenerateStep(p)
         \/ DefaultStep(p)
         \/ ProxyStep(p)
         \/ ServerStep(p)
         \/ ReadStep(p)
    \/ Env

Spec == Init /\ [][Next]_vars

\* Concurrent requests on the proxy, from a fresh manager.
NextProxy ==
    \/ \E p \in Procs :
         \/ EnsureStep(p)
         \/ StartProxyStep(p)
         \/ RegenerateStep(p)
         \/ DefaultStep(p)
         \/ ProxyStep(p)
    \/ Env

SpecProxy == InitRace /\ [][NextProxy]_vars

\* Concurrent requests on the servers, the proxy being there.
NextServers ==
    \/ \E p \in Procs :
         \/ EnsureStep(p)
         \/ RegenerateStep(p)
         \/ ServerStep(p)
    \/ Env

SpecServers == InitServers /\ [][NextServers]_vars

\* --------------------------------------------------------- the probe alone
\* Every state a container can report to ContainerInspect.
AllFlags == [Running : BOOLEAN, Restarting : BOOLEAN, Dead : BOOLEAN, OOMKilled : BOOLEAN]

ProxyStatuses == {StatusCreating, StatusRunning, StatusStopped, StatusError}

\* A stored proxy in any status, its container gone or in any state.
ProxyInAnyState ==
    /\ \E st \in ProxyStatuses :
         proxyRows = {[ID |-> SingleProxyID, ContainerID |-> -1, VolumeID |-> ProxyVolume,
                       DefaultServerID |-> NoHandle, Status |-> st,
                       Port |-> DefaultProxyPort]}
    /\ \/ containers = <<>>
       \/ \E f \in AllFlags :
            containers = (-1 :> [NewContainer("mc-proxy-main", ProxyVolume, TRUE,
                                              {"velocity-proxy", "proxy"}, FALSE)
                                 EXCEPT !.flags = f])
    /\ volumes = {ProxyVolume}
    /\ patched = {}
    /\ network = TRUE
    /\ deployed = NoDoc
    /\ serverRows = <<>>
    /\ nextSid = 1
    /\ nextPc = 1

InitProbe == ProxyInAnyState /\ Tasks /\ ops = MaxProbeOps /\ width = 1

\* Reads of the proxy, one after the other.
NextProbe ==
    \E p \in Procs :
         \/ BeginGetProxy(p)
         \/ SyncProxyInspect(p)
         \/ SyncProxyUpdate(p)
         \/ Done(p)

SpecProbe == InitProbe /\ [][NextProbe]_vars

\* ------------------------------------------------------ the connect alone
InitConnect == ProxyReady /\ Tasks /\ ops = MaxConnectOps /\ width = 1

\* Servers are created and connected again, one request after the other.
NextConnect ==
    \/ Env
    \/ \E p \in Procs :
         \/ EnsureStep(p)
         \/ RegenerateStep(p)
         \/ \E req \in Requests : BeginCreateServer(p, req)
         \/ CreateServerVolume(p)
         \/ CreateServerPull(p)
         \/ CreateServerContainer(p)
         \/ CreateServerPatch(p)
         \/ CreateServerSave(p)
         \/ CreateServerConnect(p)
         \/ \E id \in 1..MaxServers : BeginConnectServerToProxy(p, id)
         \/ ConnectServerToProxyCall(p)

SpecConnect == InitConnect /\ [][NextConnect]_vars

\* ------------------------------------------------------ LogsHandler.StreamLogs
\* The manager's state, which the log stream reads and never writes.
managerVars == <<containers, volumes, patched, network, deployed, proxyRows, serverRows,
                 nextSid, nextPc, pc, loc, hist, envs, ops, width>>

\* The manager after a first CreateServer("A") on the ready proxy has returned.
ServerReady ==
    /\ containers = (-1 :> [NewContainer("mc-proxy-main", ProxyVolume, TRUE,
                                         {"velocity-proxy", "proxy"}, FALSE)
                            EXCEPT !.flags = FlagsRunning])
                    @@ (1 :> [NewContainer("mc-server", 1, TRUE, {"A"}, TRUE)
                              EXCEPT !.connects = 1])
    /\ volumes = {ProxyVolume, 1}
    /\ patched = {1}
    /\ network = TRUE
    /\ deployed = [present |-> TRUE,
                   servers |-> <<[name |-> "A",
                                  addr |-> [host |-> "A", port |-> BackendPort]]>>,
                   try |-> <<"A">>]
    /\ proxyRows = {[ID |-> SingleProxyID, ContainerID |-> -1, VolumeID |-> ProxyVolume,
                     DefaultServerID |-> NoHandle, Status |-> StatusRunning,
                     Port |-> DefaultProxyPort]}
    /\ serverRows = <<[ID |-> 1, ContainerID |-> 1, VolumeID |-> 1,
                       Status |-> StatusCreating, Name |-> "A",
                       MaxPlayers |-> DefaultMaxPlayers, Deleted |-> FALSE]>>
    /\ nextSid = 2
    /\ nextPc = 1

\* StreamLogs up to the two go statements: GetServer (404 when it fails),
\* websocket.Accept, context.WithCancel(r.Context()) and GetServerLogs, whose
\* failure is reported to the client and ends the handler.  follow is the query
\* parameter; without it the source holds the tail and then ends.
BeginStreamLogs(id) ==
    /\ stream.main = "idle"
    /\ \E ok \in Outcomes, follow \in BOOLEAN, tail \in 0..MaxLines :
        LET row == ServerFindByID(serverRows, id) IN
        /\ Charge(ok)
        /\ stream' = IF row.ID = NoHandle
                     THEN [stream EXCEPT !.main = "returned"]
                     ELSE IF ~ok
                     THEN [stream EXCEPT !.main = "returned", !.cancelled = TRUE]
                     ELSE [stream EXCEPT !.main = "wait", !.reader = "read",
                                         !.sender = "start", !.follow = follow,
                                         !.lines = tail]
    /\ UNCHANGED managerVars

\* StreamLogs at <-logsDone: the channel is closed when streamLogs has returned;
\* the deferred logReader.Close, cancel and conn.Close then run.
StreamLogsReturn ==
    /\ stream.main = "wait"
    /\ stream.sender = "exited"
    /\ stream' = [stream EXCEPT !.main = "returned", !.cancelled = TRUE]
    /\ UNCHANGED <<managerVars, faults>>

\* handleClientMessages: defer cancel().
ReaderExitCtx(cancelled) == TRUE

\* handleClientMessages at conn.Read(ctx): an error (the context is cancelled
\* or the client has closed its side) ends the goroutine; a message that is no
\* command is skipped; a command is handed to ExecuteCommand, which creates and
\* attaches the exec.
ReaderRead ==
    /\ stream.reader = "read"
    /\ IF stream.cancelled \/ (stream.inbox = 0 /\ stream.client = "closed")
       THEN stream' = [stream EXCEPT !.reader = "exited",
                                     !.cancelled = ReaderExitCtx(stream.cancelled)]
       ELSE /\ stream.inbox > 0
            /\ \E type \in {"command", "other"} :
                 stream' = [stream EXCEPT !.inbox = @ - 1,
                                          !.reader = IF type = "command" THEN "exec"
                                                     ELSE "read"]
    /\ UNCHANGED <<managerVars, faults>>

\* ExecuteCommand at io.ReadAll(attachResp.Reader): the read of the hijacked
\* connection takes no context and returns when the command has ended; the
\* result or the error is sent and the loop goes on.
ExecuteCommandReturn ==
    /\ stream.reader = "exec"
    /\ stream' = [stream EXCEPT !.reader = "read", !.replies = @ + 1]
    /\ UNCHANGED <<managerVars, faults>>

\* streamLogs: io.Pipe and the go statement of the demultiplexer.
StreamLogsPipe ==
    /\ stream.sender = "start"
    /\ stream' = [stream EXCEPT !.sender = "scan", !.demux = "copy"]
    /\ UNCHANGED <<managerVars, faults>>

\* The demultiplexer at the read of logReader inside stdcopy.StdCopy: the read
\* fails when the context is cancelled, yields a line, or ends with the source;
\* on return the deferred pw.Close runs.
DemuxCopy ==
    /\ stream.demux = "copy"
    /\ IF stream.cancelled
       THEN stream' = [stream EXCEPT !.demux = "exited"]
       ELSE IF stream.lines > 0
       THEN stream' = [stream EXCEPT !.demux = "write", !.lines = @ - 1]
       ELSE /\ stream.ended \/ ~stream.follow
            /\ stream' = [stream EXCEPT !.demux = "exited"]
    /\ UNCHANGED <<managerVars, faults>>

\* pw.Write meets scanner.Scan: the pipe hands the line over.
PipeTransfer ==
    /\ stream.demux = "write"
    /\ stream.sender = "scan"
    /\ stream' = [stream EXCEPT !.demux = "copy", !.sender = "send"]
    /\ UNCHANGED <<managerVars, faults>>

\* pw.Write after pr.Close: the write fails and StdCopy returns.
DemuxWriteClosed ==
    /\ stream.demux = "write"
    /\ stream.sender = "exited"
    /\ stream' = [stream EXCEPT !.demux = "exited"]
    /\ UNCHANGED <<managerVars, faults>>

\* scanner.Scan after pw.Close: the loop ends, the deferred pr.Close runs and
\* logsDone is closed.
SenderScanEnd ==
    /\ stream.sender = "scan"
    /\ stream.demux = "exited"
    /\ stream' = [stream EXCEPT !.sender = "exited"]
    /\ UNCHANGED <<managerVars, faults>>

\* sendLog: conn.Write(ctx) fails when the context is cancelled; after the
\* client has closed its side the write fails or still lands in a buffer.
SenderSend ==
    /\ stream.sender = "send"
    /\ \E ok \in IF stream.cancelled THEN {FALSE}
                 ELSE IF stream.client = "closed" THEN {TRUE, FALSE} ELSE {TRUE} :
         stream' = [stream EXCEPT !.sender = IF ok THEN "scan" ELSE "exited"]
    /\ UNCHANGED <<managerVars, faults>>

\* The client sends a message.
ClientSend ==
    /\ stream.main = "wait"
    /\ stream.client = "open"
    /\ stream.msgs < MaxMsgs
    /\ stream' = [stream EXCEPT !.inbox = @ + 1, !.msgs = @ + 1]
    /\ UNCHANGED <<managerVars, faults>>

\* The client closes its side of the WebSocket.
ClientClose ==
    /\ stream.main = "wait"
    /\ stream.client = "open"
    /\ stream' = [stream EXCEPT !.client = "closed"]
    /\ UNCHANGED <<managerVars, faults>>

\* The request context is cancelled.
RequestCancel ==
    /\ stream.main = "wait"
    /\ ~stream.reqCancelled
    /\ stream' = [stream EXCEPT !.reqCancelled = TRUE, !.cancelled = TRUE]
    /\ UNCHANGED <<managerVars, faults>>

\* The container writes a line to a followed log.
LogLine ==
    /\ stream.main = "wait"
    /\ stream.follow
    /\ ~stream.ended
    /\ stream.written < MaxLines
    /\ stream' = [stream EXCEPT !.lines = @ + 1, !.written = @ + 1]
    /\ UNCHANGED <<managerVars, faults>>

\* The followed log ends: the container has stopped.
LogEnd ==
    /\ stream.main = "wait"
    /\ stream.follow
    /\ ~stream.ended
    /\ stream' = [stream EXCEPT !.ended = TRUE]
    /\ UNCHANGED <<managerVars, faults>>

ReaderStep == ReaderRead

SenderStep == StreamLogsPipe \/ PipeTransfer \/ SenderScanEnd \/ SenderSend

DemuxStep == DemuxCopy \/ DemuxWriteClosed

InitLogs == ServerReady /\ Tasks /\ ops = 0 /\ width = 1

NextLogs ==
    \/ \E id \in 1..MaxServers : BeginStreamLogs(id)
    \/ StreamLogsReturn
    \/ ReaderRead
    \/ ExecuteCommandReturn
    \/ StreamLogsPipe
    \/ DemuxCopy
    \/ PipeTransfer
    \/ DemuxWriteClosed
    \/ SenderScanEnd
    \/ SenderSend
    \/ ClientSend
    \/ ClientClose
    \/ RequestCancel
    \/ LogLine
    \/ LogEnd

\* Every goroutine that can run does run; the command that ExecuteCommand
\* waits for is no goroutine and ends when it ends.
SpecLogs ==
    /\ InitLogs
    /\ [][NextLogs]_vars
    /\ WF_vars(StreamLogsReturn)
    /\ WF_vars(ReaderStep)
    /\ WF_vars(SenderStep)
    /\ WF_vars(DemuxStep)

\* ------------------------------------------- ServerRepository, ProxyRepository
\* ProxyRepository.Delete: db.Unscoped().Delete removes the row.
ProxyDelete(rows, id) == {r \in rows : r.ID # id}

\* db.Save on the servers table: the unique index on Name rejects a second row
\* of the same name.
ServerSaveOk(rows, row) ==
    \A i \in 1..Len(rows) : rows[i].ID # row.ID => rows[i].Name # row.Name

\* The rows a servers table may hold: one per ID, one per Name.
StoredServer(id, nm, del) ==
    [ID |-> id, ContainerID |-> id, VolumeID |-> id, Status |-> StatusRunning,
     Name |-> nm, MaxPlayers |-> DefaultMaxPlayers, Deleted |-> del]

ServerTables ==
    {<<>>}
    \cup {<<StoredServer(i, n, d)>> :
            i \in 1..MaxServers, n \in {"A", "B"}, d \in BOOLEAN}
    \cup {<<StoredServer(1, "A", d), StoredServer(2, "B", e)>> : d, e \in BOOLEAN}

ProxyTables ==
    {{}, {[ID |-> SingleProxyID, ContainerID |-> -1, VolumeID |-> ProxyVolume,
           DefaultServerID |-> NoHandle, Status |-> StatusRunning,
           Port |-> DefaultProxyPort]}}

\* The result of a repository call, kept where a handler keeps its locals.
RepoResult(l) ==
    /\ ops > 0
    /\ ops' = ops - 1
    /\ loc' = [loc EXCEPT ![1] = l]
    /\ UNCHANGED <<runtimeVars, nextSid, nextPc, pc, hist, faults, envs, width, stream>>

RepoServerFindByID(id) ==
    LET row == ServerFindByID(serverRows, id) IN
    /\ RepoResult([LocInit EXCEPT !.op = "ServerRepository.FindByID", !.id = id,
                                  !.server = row,
                                  !.err = IF row.ID = NoHandle THEN "server not found"
                                          ELSE ""])
    /\ UNCHANGED <<serverRows, proxyRows>>

RepoServerUpdate(id, nm) ==
    LET row == [StoredServer(id, nm, FALSE) EXCEPT !.Status = StatusStopped]
        ok == ServerSaveOk(serverRows, row)
    IN  /\ RepoResult([LocInit EXCEPT !.op = "ServerRepository.Update", !.id = id,
                                      !.server = row,
                                      !.err = IF ok THEN "" ELSE "database"])
        /\ serverRows' = IF ok THEN ServerSave(serverRows, row) ELSE serverRows
        /\ UNCHANGED proxyRows

\* RowsAffected == 0 is the not-found error.
RepoServerDelete(id) ==
    /\ RepoResult([LocInit EXCEPT !.op = "ServerRepository.Delete", !.id = id,
                                  !.err = IF ServerFindByID(serverRows, id).ID = NoHandle
                                          THEN "server not found" ELSE ""])
    /\ serverRows' = ServerDelete(serverRows, id)
    /\ UNCHANGED proxyRows

RepoProxyFindByID ==
    LET row == ProxyFindByID(proxyRows, SingleProxyID) IN
    /\ RepoResult([LocInit EXCEPT !.op = "ProxyRepository.FindByID", !.proxy = row,
                                  !.err = IF row.ID = "" THEN "proxy not found" ELSE ""])
    /\ UNCHANGED <<serverRows, proxyRows>>

RepoProxyUpdate(st) ==
    LET row == [ID |-> SingleProxyID, ContainerID |-> -1, VolumeID |-> ProxyVolume,
                DefaultServerID |-> NoHandle, Status |-> st, Port |-> DefaultProxyPort]
    IN  /\ RepoResult([LocInit EXCEPT !.op = "ProxyRepository.Update", !.proxy = row])
        /\ proxyRows' = ProxySave(proxyRows, row)
        /\ UNCHANGED serverRows

RepoProxyDelete ==
    /\ RepoResult([LocInit EXCEPT !.op = "ProxyRepository.Delete",
                                  !.err = IF ProxyFindByID(proxyRows, SingleProxyID).ID = ""
                                          THEN "proxy not found" ELSE ""])
    /\ proxyRows' = ProxyDelete(proxyRows, SingleProxyID)
    /\ UNCHANGED serverRows

InitRegistry ==
    /\ containers = <<>>
    /\ volumes = {}
    /\ patched = {}
    /\ network = FALSE
    /\ deployed = NoDoc
    /\ proxyRows \in ProxyTables
    /\ serverRows \in ServerTables
    /\ nextSid = 1
    /\ nextPc = 0
    /\ Tasks
    /\ ops = MaxRegistryOps
    /\ width = 1

NextRegistry ==
    \/ \E id \in 1..MaxServers : RepoServerFindByID(id)
    \/ \E id \in 1..MaxServers, nm \in {"A", "B"} : RepoServerUpdate(id, nm)
    \/ \E id \in 1..MaxServers : RepoServerDelete(id)
    \/ RepoProxyFindByID
    \/ \E st \in {StatusRunning, StatusStopped} : RepoProxyUpdate(st)
    \/ RepoProxyDelete

SpecRegistry == InitRegistry /\ [][NextRegistry]_vars

\* ------------------------------------------------------------- ServerHandler
\* The status the handler of operation op answers with when the service call
\* has returned err ("": nil): respondError with http.StatusInternalServerError
\* in every handler but GetServer.
respond(op, err) ==
    IF op = "CreateServer" THEN (IF err = "" THEN 201 ELSE 500)
    ELSE IF op = "ListServers" THEN (IF err = "" THEN 200 ELSE 500)
    ELSE IF op = "GetServer" THEN (IF err = "" THEN 200 ELSE 404)
    ELSE IF op = "DeleteServer" THEN (IF err = "" THEN 204 ELSE 500)
    ELSE IF err = "" THEN 200 ELSE 500

\* ------------------------------------------------------------- properties
\* Task p is about to return from a call of operation op.
Returning(p, op) == pc[p] = "done" /\ loc[p].op = op

\* The stored proxy row, NilProxy when there is none.
StoredProxy == ProxyFindByID(proxyRows, SingleProxyID)

\* The names of the rows that are not deleted.
LiveNames == {serverRows[i].Name : i \in {j \in 1..Len(serverRows) : ~serverRows[j].Deleted}}

\* C1: EnsureProxyExists called right after an EnsureProxyExists that created
\* the proxy, no call failing: the second call succeeds, returns the row with
\* id "main-proxy" and the container and volume the first call returned, and
\* leaves the containers and volumes as the first call left them.
EnsureProxyExistsIdempotent ==
    \A p \in Procs :
        (Returning(p, "EnsureProxyExists") /\ hist.ok /\ hist.created /\ faults = 0) =>
            /\ loc[p].err = ""
            /\ loc[p].proxy.ID = SingleProxyID
            /\ hist.out.ID = SingleProxyID
            /\ loc[p].proxy.ContainerID = hist.out.ContainerID
            /\ loc[p].proxy.VolumeID = hist.out.VolumeID
            /\ ~loc[p].created
            /\ DOMAIN containers = hist.cids
            /\ volumes = hist.vols
            /\ proxyRows = {StoredProxy}

\* The second of two EnsureProxyExists calls returns.
EnsureTwiceReached ==
    \E p \in Procs :
        /\ Returning(p, "EnsureProxyExists") /\ hist.ok /\ hist.created /\ faults = 0
        /\ loc[p].proxy.ContainerID = hist.out.ContainerID
        /\ hist.out.ContainerID \in DOMAIN containers

\* C2: whatever the interleaving of EnsureProxyExists with the other proxy
\* requests, the table proxy_servers holds at most one row.
AtMostOneProxyRow == Cardinality(proxyRows) <= 1

\* A first-caller that lost the race: its proxyRepo.Create was rejected
\* because the other caller's row was there.
EnsureRaceLost ==
    \E p \in Procs :
        /\ Returning(p, "EnsureProxyExists") /\ loc[p].err = "database"
        /\ faults = 0
        /\ Cardinality(proxyRows) = 1

UniqueLiveNames ==
    \A i, j \in 1..Len(serverRows) :
        (i # j /\ ~serverRows[i].Deleted /\ ~serverRows[j].Deleted) =>
            serverRows[i].Name # serverRows[j].Name

\* Two creates of one name ran side by side; one stored its row, the other
\* was rejected.
CreateRaceReached ==
    \E p, q \in Procs :
        /\ p # q
        /\ Returning(p, "CreateServer") /\ loc[p].err = "conflict"
        /\ loc[q].op = "CreateServer" /\ loc[q].name = loc[p].name
        /\ loc[q].id < loc[p].id
        /\ \E i \in 1..Len(serverRows) : serverRows[i].ID = loc[q].id

\* C5: a RegenerateProxyConfig that succeeds deploys a servers mapping with
\* one entry per row that is not deleted, name -> "name:25565", and nothing
\* else: A and B after both were created, B alone once A is deleted.
DeployedServersFresh ==
    \A p \in Procs :
        (Returning(p, "RegenerateProxyConfig") /\ loc[p].err = "") =>
            /\ deployed.present
            /\ Len(deployed.servers) = Cardinality(LiveNames)
            /\ {deployed.servers[i].name : i \in 1..Len(deployed.servers)} = LiveNames
            /\ \A i \in 1..Len(deployed.servers) :
                 deployed.servers[i].addr =
                     [host |-> deployed.servers[i].name, port |-> 25565]

\* A and B were created, A was deleted, and the regeneration deployed B alone.
DeployedAfterDeleteReached ==
    \E p \in Procs :
        /\ Returning(p, "RegenerateProxyConfig") /\ loc[p].err = ""
        /\ Len(serverRows) = 2
        /\ serverRows[1].Name = "A" /\ serverRows[1].Deleted
        /\ serverRows[2].Name = "B" /\ ~serverRows[2].Deleted
        /\ Len(deployed.servers) = 1
        /\ deployed.servers[1] = [name |-> "B", addr |-> [host |-> "B", port |-> 25565]]

\* C6: a RegenerateProxyConfig in which no call fails succeeds; its try list
\* is the one name of the default server when that row exists, and the names
\* of all rows when no default is set or the default row is gone.
TryListFallsBack ==
    \A p \in Procs :
        (Returning(p, "RegenerateProxyConfig") /\ faults = 0
           /\ loc[p].proxy.ID # "" /\ CanExec(containers, loc[p].proxy.ContainerID)) =>
            LET d == loc[p].proxy.DefaultServerID
                held == \E i \in 1..Len(serverRows) :
                            serverRows[i].ID = d /\ ~serverRows[i].Deleted
                names == {deployed.try[i] : i \in 1..Len(deployed.try)}
            IN  /\ loc[p].err = ""
                /\ IF d # NoHandle /\ held
                   THEN \E i \in 1..Len(serverRows) :
                            /\ serverRows[i].ID = d
                            /\ deployed.try = <<serverRows[i].Name>>
                   ELSE names = LiveNames /\ Len(deployed.try) = Cardinality(LiveNames)

\* C7: GetProxy on a row stored as running whose container was removed from
\* outside, no call failing: the proxy returned is stopped with an empty
\* container id, and so is the stored row.
RemovedProxyReadStopped ==
    \A p \in Procs :
        (Returning(p, "GetProxy") /\ faults = 0
           /\ loc[p].found.Status = StatusRunning
           /\ loc[p].found.ContainerID \notin DOMAIN containers) =>
            /\ loc[p].err = ""
            /\ loc[p].proxy.Status = StatusStopped
            /\ loc[p].proxy.ContainerID = NoHandle
            /\ StoredProxy.Status = StatusStopped
            /\ StoredProxy.ContainerID = NoHandle

\* The read of a running proxy whose container was removed returns.
RemovedProxyReadReached ==
    \E p \in Procs :
        /\ Returning(p, "GetProxy") /\ faults = 0 /\ envs = 1
        /\ loc[p].found.Status = StatusRunning
        /\ loc[p].found.ContainerID # NoHandle
        /\ loc[p].found.ContainerID \notin DOMAIN containers
        /\ StoredProxy.Status = StatusStopped

\* C8: the server GetServer returns as running has a running container: a
\* row that disagrees with its container is corrected before it is returned.
ServerReadSynced ==
    \A p \in Procs :
        (Returning(p, "GetServer") /\ loc[p].err = ""
           /\ loc[p].server.Status = StatusRunning) =>
            /\ loc[p].server.ContainerID \in DOMAIN containers
            /\ containers[loc[p].server.ContainerID].flags.Running

\* C9: the proxy GetProxy returns, the inspect call having succeeded, has the
\* status the container state maps to by the first rule that applies: gone ->
\* stopped and the container id cleared, running -> running, restarting ->
\* creating, dead or OOM-killed -> error, anything else -> stopped.
ProbeMapping ==
    \A p \in Procs :
        (Returning(p, "GetProxy") /\ loc[p].err = "" /\ ~loc[p].unreachable) =>
            LET c == loc[p].found.ContainerID
                out == loc[p].proxy
                exists == c \in DOMAIN containers
                f == containers[c].flags
            IN  /\ ~exists => out.Status = StatusStopped /\ out.ContainerID = NoHandle
                /\ exists => out.ContainerID = c
                /\ (exists /\ f.Running) => out.Status = StatusRunning
                /\ (exists /\ ~f.Running /\ f.Restarting) => out.Status = StatusCreating
                /\ (exists /\ ~f.Running /\ ~f.Restarting /\ (f.Dead \/ f.OOMKilled)) =>
                       out.Status = StatusError
                /\ (exists /\ ~f.Running /\ ~f.Restarting /\ ~f.Dead /\ ~f.OOMKilled) =>
                       out.Status = StatusStopped

\* A container that reports running, restarting and dead at once was read as
\* running.
ProbePriorityReached ==
    \E p \in Procs :
        /\ Returning(p, "GetProxy") /\ ~loc[p].unreachable
        /\ loc[p].state.Exists /\ loc[p].state.Running
        /\ loc[p].state.Restarting /\ loc[p].state.Dead
        /\ loc[p].found.Status = StatusStopped
        /\ StoredProxy.Status = StatusRunning

\* C10: GetProxy whose inspect call fails for a container that exists returns
\* the row as it was stored, and the stored row is what it was.
UnreachableReadStale ==
    \A p \in Procs :
        (Returning(p, "GetProxy") /\ loc[p].unreachable
           /\ loc[p].found.ContainerID \in DOMAIN containers) =>
            /\ loc[p].err = ""
            /\ loc[p].proxy = loc[p].found
            /\ StoredProxy = loc[p].found

\* C11: a server container on the shared network is there through exactly one
\* NetworkConnect and carries the server name as its only alias; a
\* ConnectServerToProxy that succeeds leaves the container attached, and when
\* the container was attached already it changes nothing.
SoleAliasIsName ==
    /\ \A i \in 1..Len(serverRows) :
         LET c == serverRows[i].ContainerID IN
         (c \in DOMAIN containers /\ containers[c].attached) =>
             /\ containers[c].aliases = {serverRows[i].Name}
             /\ containers[c].connects = 1
    /\ \A p \in Procs :
         (Returning(p, "ConnectServerToProxy") /\ loc[p].err = "") =>
             /\ loc[p].server.ContainerID \in DOMAIN containers
             /\ containers[loc[p].server.ContainerID].attached

\* ConnectServerToProxy returns for a server CreateServer had connected.
ConnectedTwiceReached ==
    \E p \in Procs :
        /\ Returning(p, "ConnectServerToProxy") /\ loc[p].err = ""
        /\ loc[p].connected
        /\ containers[loc[p].server.ContainerID].connects = 1
        /\ containers[loc[p].server.ContainerID].aliases = {loc[p].server.Name}

\* C12: from an empty manager, EnsureProxyExists, then CreateServer of the
\* request that leaves max_players out (name "A" here), then
\* RegenerateProxyConfig, no call failing: the server has MaxPlayers 20, its
\* container was created with ONLINE_MODE=FALSE, it is on the shared network
\* under its name alone, and the deployed try list is that one name.
EndToEnd ==
    \A p \in Procs :
        (/\ Returning(p, "RegenerateProxyConfig") /\ loc[p].err = ""
         /\ faults = 0 /\ envs = 0
         /\ Len(serverRows) = 1 /\ serverRows[1].Name = "A" /\ ~serverRows[1].Deleted) =>
            LET c == serverRows[1].ContainerID IN
            /\ serverRows[1].MaxPlayers = 20
            /\ c \in DOMAIN containers
            /\ containers[c].proxyMode
            /\ containers[c].attached
            /\ containers[c].aliases = {"A"}
            /\ deployed.try = <<"A">>
            /\ deployed.servers = <<[name |-> "A", addr |-> [host |-> "A", port |-> 25565]]>>

\* The three requests of the scenario were served and nothing else.
EndToEndReached ==
    \E p \in Procs :
        /\ Returning(p, "RegenerateProxyConfig") /\ loc[p].err = ""
        /\ faults = 0 /\ envs = 0 /\ ops = MaxOps - 3
        /\ nextPc = 1 /\ nextSid = 2
        /\ Len(serverRows) = 1 /\ serverRows[1].Name = "A"
        /\ serverRows[1].MaxPlayers = 20
        /\ deployed.try = <<"A">>

PostCreationBestEffort ==
    \A p \in Procs :
        (Returning(p, "CreateServer")
           /\ loc[p].err \notin {"volume", "image", "container", "conflict", "database"}) =>
            /\ loc[p].err = ""
            /\ loc[p].id \in DOMAIN containers
            /\ loc[p].id \in volumes
            /\ \E i \in 1..Len(serverRows) : serverRows[i].ID = loc[p].id

\* C15: when the first EnsureProxyExists of a fresh manager returns an error,
\* whatever step of createProxy failed, the row, the container and the volume
\* it provisioned are gone.
CreateProxyCleansUp ==
    \A p \in Procs :
        (Returning(p, "EnsureProxyExists") /\ loc[p].err # "" /\ ops = MaxOps - 1) =>
            /\ proxyRows = {}
            /\ containers = <<>>
            /\ volumes = {}

\* C16: as long as nothing outside the manager touched the containers, and
\* between the steps of no request, every row that is not deleted, has a
\* container id and is not stopped has its container.
NoDanglingRow ==
    (envs = 0 /\ \A p \in Procs : pc[p] \in {"idle", "done"}) =>
        \A i \in 1..Len(serverRows) :
            (/\ ~serverRows[i].Deleted
             /\ serverRows[i].ContainerID # NoHandle
             /\ serverRows[i].Status # StatusStopped) =>
                serverRows[i].ContainerID \in DOMAIN containers

\* C17: every step that changes the stored status of a server takes it from
\* creating to running, from running to stopped or from stopped to running,
\* a new row starts as creating, and no step stores the status error.
ControllerTransitions ==
    [][\A i \in 1..Len(serverRows') :
         IF i <= Len(serverRows)
         THEN \/ serverRows'[i].Status = serverRows[i].Status
              \/ <<serverRows[i].Status, serverRows'[i].Status>> \in
                   {<<StatusCreating, StatusRunning>>, <<StatusRunning, StatusStopped>>,
                    <<StatusStopped, StatusRunning>>}
         ELSE serverRows'[i].Status = StatusCreating]_vars

\* C18: RegenerateProxyConfig returns an error when there is no proxy row,
\* when the proxy container is not running, and when the write fails; when it
\* returns none, the proxy row exists, its container is running and the
\* deployed document is the one generated from the rows it read.
RegenerateReportsFailure ==
    \A p \in Procs :
        Returning(p, "RegenerateProxyConfig") =>
            LET c == StoredProxy.ContainerID
                running == c \in DOMAIN containers /\ containers[c].flags.Running
            IN  /\ proxyRows = {} => loc[p].err # ""
                /\ ~running => loc[p].err # ""
                /\ loc[p].err = "" =>
                     /\ proxyRows # {} /\ running
                     /\ deployed.present
                     /\ deployed = generateVelocityConfig(loc[p].list, loc[p].defname)

\* A regeneration failed because the proxy container was stopped.
RegenerateOnStoppedProxy ==
    \E p \in Procs :
        /\ Returning(p, "RegenerateProxyConfig") /\ loc[p].err = "exec"
        /\ faults = 0 /\ envs = 0
        /\ StoredProxy.Status = StatusStopped
        /\ StoredProxy.ContainerID \in DOMAIN containers
        /\ ~containers[StoredProxy.ContainerID].flags.Running

\* C19: when DeleteServer returns without error, no call having failed and
\* the proxy container running, the deployed document lists the names of the
\* rows that are left and not the deleted server.
DeleteRedeploys ==
    \A p \in Procs :
        (Returning(p, "DeleteServer") /\ loc[p].err = "" /\ faults = 0 /\ envs = 0
           /\ CanExec(containers, StoredProxy.ContainerID)) =>
            {deployed.servers[i].name : i \in 1..Len(deployed.servers)} = LiveNames

\* The goroutines of a log stream have all ended and StreamLogs has returned.
StreamClosed ==
    /\ stream.main = "returned"
    /\ stream.reader = "exited"
    /\ stream.sender = "exited"
    /\ stream.demux = "exited"

\* C20: once the request context is cancelled or the client has closed its side
\* of the WebSocket, StreamLogs eventually returns and the client-message
\* reader, the demultiplexer and the line sender all end; and once the log
\* source has ended, the client-message reader eventually ends.
StreamLogsTerminates ==
    /\ (stream.main = "wait" /\ (stream.cancelled \/ stream.client = "closed"))
           ~> StreamClosed
    /\ (stream.main = "wait" /\ (stream.ended \/ ~stream.follow))
           ~> (stream.reader = "exited")

\* C21: a registry operation that addresses a row by id (FindByID, Update,
\* Delete, on the servers and on the proxies table) returns the not-found error
\* and leaves the table as it was when no row has that id.
RegistryNotFound ==
    [][LET l == loc'[1] IN
       /\ (/\ l.op \in {"ServerRepository.FindByID", "ServerRepository.Update",
                        "ServerRepository.Delete"}
           /\ ServerFindByID(serverRows, l.id).ID = NoHandle)
          => (l.err = "server not found" /\ serverRows' = serverRows)
       /\ (/\ l.op \in {"ProxyRepository.FindByID", "ProxyRepository.Update",
                        "ProxyRepository.Delete"}
           /\ ProxyFindByID(proxyRows, SingleProxyID).ID = "")
          => (l.err = "proxy not found" /\ proxyRows' = proxyRows)]_vars

\* C22: registry delete is a hard delete: no row of a deleted instance remains
\* in the table, and with no failing call a CreateServer is only rejected when
\* a listed instance already has its name.
DeleteIsHard ==
    /\ \A i \in 1..Len(serverRows) : ~serverRows[i].Deleted
    /\ \A p \in Procs :
         (/\ Returning(p, "CreateServer")
          /\ faults = 0
          /\ envs = 0
          /\ loc[p].name \notin LiveNames)
         => loc[p].err = ""

\* C23: error kinds surface to the caller: StartServer, StopServer and
\* DeleteServer on an id without a row answer 404, and a CreateServer whose
\* name is taken answers 409.
ErrorKindsSurface ==
    \A p \in Procs :
        /\ (/\ pc[p] = "done"
            /\ loc[p].op \in {"StartServer", "StopServer", "DeleteServer"}
            /\ loc[p].err = "server not found")
           => respond(loc[p].op, loc[p].err) = 404
        /\ (Returning(p, "CreateServer") /\ loc[p].err = "conflict")
           => respond(loc[p].op, loc[p].err) = 409

\* C24: StartServer and StopServer on an id without a row return the not-found
\* error and touch no container; when the row exists and the runtime call
\* fails they return an error and leave the stored row as it was; the row is
\* only written after the runtime call has succeeded, as running by
\* StartServer and as stopped by StopServer.
StartStopFrame ==
    /\ [][\A p \in Procs :
            (loc'[p].op \in {"StartServer", "StopServer"} /\ pc'[p] # pc[p]) =>
                /\ (pc[p] = "idle" /\ ServerFindByID(serverRows, loc'[p].id).ID = NoHandle)
                   => /\ pc'[p] = "done"
                      /\ loc'[p].err = "server not found"
                      /\ containers' = containers
                      /\ serverRows' = serverRows
                /\ (pc[p] = "idle") => containers' = containers
                /\ (pc[p] \in {"s_start", "s_stop"} /\ pc'[p] = "done")
                   => /\ loc'[p].err \in {"start", "stop"}
                      /\ containers' = containers
                      /\ serverRows' = serverRows
                /\ (serverRows' # serverRows)
                   => /\ pc[p] = "s_update"
                      /\ loc'[p].err = ""
                      /\ loc[p].server.ContainerID \in DOMAIN containers
                      /\ containers[loc[p].server.ContainerID].flags.Running
                            = (loc[p].op = "StartServer")
                      /\ ServerFindByID(serverRows', loc[p].id).Status
                            = IF loc[p].op = "StartServer" THEN StatusRunning
                              ELSE StatusStopped]_vars
    /\ [](\A p \in Procs :
            (pc[p] = "done" /\ loc[p].op \in {"StartServer", "StopServer"}
             /\ loc[p].err = "")
            => ServerFindByID(serverRows, loc[p].id).Status
                  = IF loc[p].op = "StartServer" THEN StatusRunning ELSE StatusStopped)

\* A StartServer whose ContainerStart failed has returned, the row still creating.
StartFailedReached ==
    \E p \in Procs :
        /\ Returning(p, "StartServer")
        /\ loc[p].err = "start"
        /\ ServerFindByID(serverRows, loc[p].id).Status = StatusCreating
        /\ loc[p].server.ContainerID \in DOMAIN containers

RowStoredNotStarted(q) ==
    /\ pc[q] \in {"sp_find", "sp_start"}
    /\ loc[q].stk # <<>>
    /\ Head(loc[q].stk) = "createProxy"

\* C26: a caller of EnsureProxyExists whose lookup runs after another caller
\* has stored the proxy row and before that caller has started the container
\* receives the stored row and creates nothing: it issues no volume and no
\* container create.
SecondCallerObservesRow ==
    [][\A p, q \in Procs :
          (/\ p # q
           /\ RowStoredNotStarted(q)
           /\ pc[p] = "e_find"
           /\ pc'[p] # "e_find"
           /\ faults' = faults)
          => /\ pc'[p] = "done"
             /\ loc'[p].err = ""
             /\ loc'[p].proxy.ID = SingleProxyID
             /\ ~loc'[p].created
             /\ UNCHANGED <<runtimeVars, proxyRows, nextPc>>]_vars

\* The second caller has returned while the first is still ahead of its
\* ContainerStart and the proxy container has not run yet.
SecondCallerEarlyReached ==
    \E p, q \in Procs :
        /\ p # q
        /\ RowStoredNotStarted(q)
        /\ Returning(p, "EnsureProxyExists")
        /\ loc[p].err = ""
        /\ ~loc[p].created
        /\ loc[p].proxy.ContainerID = loc[q].proxy.ContainerID
        /\ loc[q].proxy.ContainerID \in DOMAIN containers
        /\ containers[loc[q].proxy.ContainerID].flags = FlagsCreated

\* C27: when first-callers race through EnsureProxyExists and nothing outside
\* the manager removes a container, the failure cleanup of a caller that lost
\* leaves the winner's resources alone: the container and the volume that the
\* stored proxy row names exist (a read that could not reach the runtime may
\* have cleared the row's container handle; the container is there all the same).
LoserSparesWinner ==
    (envs = 0 /\ proxyRows # {}) =>
        /\ StoredProxy.ContainerID # NoHandle
              => StoredProxy.ContainerID \in DOMAIN containers
        /\ NameInUse(containers, "mc-proxy-main")
        /\ StoredProxy.VolumeID \in volumes

\* Both first-callers have returned: one stored the row, the other was refused
\* the container name and ran its cleanup.
RaceLoserCleanedUp ==
    \E p, q \in Procs :
        /\ p # q
        /\ Returning(p, "EnsureProxyExists") /\ loc[p].err = "container"
        /\ loc[p].created
        /\ Returning(q, "EnsureProxyExists") /\ loc[q].err = ""
        /\ loc[q].created
        /\ faults = 0
        /\ envs = 0
        /\ proxyRows # {}

\* C28: with the proxy stored and running and no call failing, once two
\* interleaved CreateServer calls have both returned, the deployed document
\* lists every created instance: it is the document a regeneration over the
\* final table would write.
RegenerationsConverge ==
    (/\ \A p \in Procs : Returning(p, "CreateServer") /\ loc[p].err = ""
     /\ faults = 0
     /\ envs = 0
     /\ Len(serverRows) = Cardinality(Procs)
     /\ \A i \in 1..Len(serverRows) : ~serverRows[i].Deleted)
    => /\ deployed.present
       /\ deployed.servers = generateVelocityConfig(ServerFindAll(serverRows), "").servers

WiredOnlyInProxyMode ==
    \A p \in Procs :
        (/\ Returning(p, "CreateServer")
         /\ loc[p].err = ""
         /\ loc[p].id \in DOMAIN containers
         /\ containers[loc[p].id].attached)
        => /\ containers[loc[p].id].proxyMode
           /\ loc[p].id \in patched

\* C32: CreateServer only probes for a proxy: called while no proxy row is
\* stored it creates no proxy volume, container or row, and the instance is
\* created in standalone configuration.
CreateServerOnlyProbes ==
    \A p \in Procs :
        (/\ Returning(p, "CreateServer")
         /\ loc[p].err = ""
         /\ ops = MaxOps - 1
         /\ faults = 0)
        => /\ proxyRows = {}
           /\ ProxyVolume \notin volumes
           /\ ~NameInUse(containers, "mc-proxy-main")
           /\ ~containers[loc[p].id].proxyMode

\* C33: DeleteServer stops, removes the container, removes the volume and
\* removes the row, in that order: a failed stop is ignored, a failed container
\* or volume removal ends the call with the row still stored, and the row is
\* removed only when container and volume are gone.
DeleteServerOrder ==
    /\ [][\A p \in Procs :
            (loc[p].op = "DeleteServer" /\ pc'[p] # pc[p]) =>
                /\ pc[p] = "d_stop" => (pc'[p] = "d_remove" /\ serverRows' = serverRows)
                /\ (pc[p] \in {"d_remove", "d_volume"} /\ pc'[p] = "done")
                   => /\ loc'[p].err = (IF pc[p] = "d_remove" THEN "remove" ELSE "volume")
                      /\ serverRows' = serverRows
                      /\ ServerFindByID(serverRows', loc[p].id).ID = loc[p].id
                /\ pc[p] = "d_remove" => volumes' = volumes
                /\ pc'[p] = "d_volume" => loc[p].server.ContainerID \notin DOMAIN containers'
                /\ serverRows' # serverRows
                   => /\ pc[p] = "d_row"
                      /\ loc[p].server.ContainerID \notin DOMAIN containers
                      /\ loc[p].server.VolumeID \notin volumes]_vars
    /\ [](\A p \in Procs :
            (Returning(p, "DeleteServer") /\ loc[p].err = "")
            => /\ loc[p].server.ContainerID \notin DOMAIN containers
               /\ loc[p].server.VolumeID \notin volumes
               /\ ServerFindByID(serverRows, loc[p].id).ID = NoHandle)

\* A DeleteServer whose ContainerRemove failed has returned after a stop that
\* went through: the container is stopped and the row is still stored.
DeleteAbortedReached ==
    \E p \in Procs :
        /\ Returning(p, "DeleteServer")
        /\ loc[p].err = "remove"
        /\ faults = 1
        /\ ServerFindByID(serverRows, loc[p].id).ID = loc[p].id
        /\ loc[p].server.ContainerID \in DOMAIN containers
        /\ loc[p].server.VolumeID \in volumes

\* C34: the document a successful RegenerateProxyConfig deploys lists every
\* stored instance by name, whatever its status, and a default target whose
\* row is stored, running or not, is the only try entry.
DocumentIgnoresStatus ==
    \A p \in Procs :
        (Returning(p, "RegenerateProxyConfig") /\ loc[p].err = "") =>
            LET live == SelectSeq(serverRows, IsLive)
                d == StoredProxy.DefaultServerID
            IN  /\ deployed.present
                /\ Len(deployed.servers) = Len(live)
                /\ \A i \in 1..Len(live) :
                      deployed.servers[i] =
                          [name |-> live[i].Name,
                           addr |-> [host |-> live[i].Name, port |-> BackendPort]]
                /\ \A i \in 1..Len(live) :
                      live[i].ID = d => deployed.try = <<live[i].Name>>

\* A regeneration has succeeded with a stopped instance as default target.
StoppedDefaultReached ==
    \E p \in Procs :
        /\ Returning(p, "RegenerateProxyConfig")
        /\ loc[p].err = ""
        /\ \E i \in 1..Len(serverRows) :
              /\ ~serverRows[i].Deleted
              /\ serverRows[i].Status = StatusStopped
              /\ serverRows[i].ID = StoredProxy.DefaultServerID
              /\ deployed.try = <<serverRows[i].Name>>

\* C35: with no call failing, the record GetProxy returns has the status and
\* the container id of the stored row.
GetProxyMatchesStored ==
    \A p \in Procs :
        (Returning(p, "GetProxy") /\ loc[p].err = "" /\ faults = 0) =>
            /\ loc[p].proxy.Status = StoredProxy.Status
            /\ loc[p].proxy.ContainerID = StoredProxy.ContainerID

\* C36: a deleted instance never reappears: a row that DeleteServer has marked
\* deleted is never made visible to the reads again by any later step.
DeletedStaysDeleted ==
    [][\A i \in 1..Len(serverRows) :
          serverRows[i].Deleted =>
              /\ i \in 1..Len(serverRows')
              /\ serverRows'[i].ID = serverRows[i].ID
              /\ serverRows'[i].Deleted]_vars

\* C37: when a StartServer and a StopServer of the same instance have both
\* returned without error, and nothing outside the program touched the
\* container, the stored status is running exactly when the container runs.
StartStopRaceAgrees ==
    \A p, q \in Procs :
        (/\ Returning(p, "StartServer") /\ loc[p].err = ""
         /\ Returning(q, "StopServer") /\ loc[q].err = ""
         /\ loc[p].id = loc[q].id
         /\ envs = 0) =>
            LET row == ServerFindByID(serverRows, loc[p].id)
                c == row.ContainerID
            IN  /\ c \in DOMAIN containers
                /\ (row.Status = StatusRunning) <=> (containers[c].flags = FlagsRunning)

\* C38: an EnsureProxyExists that created the proxy and returned without error
\* leaves the stored row running and returns a record that is running too, so
\* that the record returned and the row stored agree in status.
CreatedRecordMatchesStored ==
    \A p \in Procs :
        (/\ Returning(p, "EnsureProxyExists") /\ loc[p].created /\ loc[p].err = ""
         /\ faults = 0 /\ envs = 0) =>
            /\ StoredProxy.Status = StatusRunning
            /\ loc[p].proxy.Status = StatusRunning
            /\ loc[p].proxy.Status = StoredProxy.Status

====
